---- MODULE Spec2Model ----
(***************************************************************************)
(* Inventory_app.py: a Streamlit front end over three SQLAlchemy tables    *)
(* (departments, items, stock_history) kept in one SQLite file.            *)
(*                                                                         *)
(* Every form submission is one run of the script that ends in            *)
(* session.commit(), so under Spec each action is one whole handler.       *)
(* ConcSpec splits the scan_barcode handler into its query (line 252) and  *)
(* its commit (lines 262-265) for two browser sessions that run the script *)
(* at the same time.                                                       *)
(*                                                                         *)
(* datetime.now() is a logical clock: every reading is later than the one  *)
(* before.  SQLite does not enforce the declared foreign keys (no PRAGMA   *)
(* foreign_keys=ON is issued), and hands out max(id)+1 as the next id.     *)
(***************************************************************************)
EXTENDS Integers, Sequences, FiniteSets, TLC

\* ---------------------------------------------------------------- bounds
MaxClock == 3        \* number of datetime.now() readings in one behaviour
MaxQty == 1          \* largest quantity typed into a form
MaxDelta == 1        \* largest |qty_change| typed into the stock form

\* ------------------------------------------------------ program constants
MinInitialQuantity == 0   \* st.number_input("Initial Quantity", min_value=0)
MinLowStock == 1          \* st.number_input("Low Stock Threshold", min_value=1)

\* ------------------------------------------------------------ input sets
DeptNames == {"Warehouse"}
ItemNames == {"Widget"}
Barcodes  == {"123", "456"}
Notes     == {"", "restock"}
Sessions  == {1, 2}

\* Department ids handed out: one row per available name.
MaxDepartments == Cardinality(DeptNames)

\* A text_input may also be left empty.
TextInput(S) == S \cup {""}

\* department_id of an item whose department row was deleted (SQL NULL).
NoDept == 0

VARIABLES
    departments,      \* table departments: id -> [name]
    items,            \* table items: id -> [name, barcode, quantity, ...]
    history,          \* table stock_history, row k has id k
    now,              \* the last reading of datetime.now()
    msg,              \* what the page shows after the run (st.success/st.error)
    initialQuantity,  \* history variable: the quantity each item was created with
    sess              \* per browser session: position in scan_barcode and the row it read

vars == <<departments, items, history, now, msg, initialQuantity, sess>>

\* ---------------------------------------------------------------- helpers
RECURSIVE SetMax(_)
SetMax(S) == IF S = {} THEN 0
             ELSE LET x == CHOOSE y \in S : TRUE
                      m == SetMax(S \ {x})
                  IN IF x > m THEN x ELSE m

\* SQLite INTEGER PRIMARY KEY without AUTOINCREMENT: largest rowid + 1.
NextId(table) == SetMax(DOMAIN table) + 1

\* unique=True on departments.name
DeptNameTaken(name, except) ==
    \E d \in DOMAIN departments \ except : departments[d].name = name

\* unique=True on items.barcode
BarcodeTaken(barcode, except) ==
    \E i \in DOMAIN items \ except : items[i].barcode = barcode

\* session.query(Item).filter_by(barcode=barcode).first()
FindByBarcode(barcode) == {i \in DOMAIN items : items[i].barcode = barcode}

Item(name, barcode, quantity, low_stock, dept, t) ==
    [name |-> name, barcode |-> barcode, quantity |-> quantity,
     low_stock_threshold |-> low_stock, department_id |-> dept,
     last_updated |-> t]

StockHistory(item_id, change, note, t) ==
    [item_id |-> item_id, change |-> change, timestamp |-> t, note |-> note]

\* Fault variant of ApplyChange: "=" written for "+=".
ApplyChangeOverwrite(item, quantity, qty_change, t) ==
    [item EXCEPT !.quantity = qty_change, !.last_updated = t]

\* item.quantity += qty_change; item.last_updated = datetime.now(), then the
\* UPDATE that commit() flushes.  `quantity` is the value the session's query
\* loaded.  The ORM writes only the columns whose value differs from the
\* loaded one, so a change of 0 leaves the stored quantity alone.
ApplyChange(item, quantity, qty_change, t) ==
    [item EXCEPT !.quantity = IF qty_change = 0 THEN @ ELSE quantity + qty_change,
                 !.last_updated = t]

\* A session that is not inside scan_barcode.  `seen` is a history field: the
\* number of stock_history rows that existed when the session ran its query.
Idle == [pc |-> "idle", item |-> 0, quantity |-> 0, change |-> 0, seen |-> 0]

\* ------------------------------------------------------------------ Init
Init ==
    /\ departments = << >>
    /\ items = << >>
    /\ history = << >>
    /\ now = 0
    /\ msg = ""
    /\ initialQuantity = << >>
    /\ sess = [p \in Sessions |-> Idle]

\* ------------------------------------------------- manage_departments
AddDepartment(dept_name) ==
    /\ IF dept_name = ""
       THEN /\ msg' = "Please enter a department name"
            /\ UNCHANGED departments
       ELSE IF DeptNameTaken(dept_name, {})
       THEN /\ msg' = "Department name already exists"
            /\ UNCHANGED departments
       ELSE /\ NextId(departments) <= MaxDepartments
            /\ departments' =
                 [d \in DOMAIN departments \cup {NextId(departments)} |->
                     IF d \in DOMAIN departments THEN departments[d]
                     ELSE [name |-> dept_name]]
            /\ msg' = "Department added!"
    /\ UNCHANGED <<items, history, now, initialQuantity, sess>>

\* new_name is drawn from DeptNames in Next: clearing the name is possible in
\* the form but adds nothing to the tables' structure.
UpdateDepartment(d, new_name) ==
    /\ d \in DOMAIN departments
    /\ IF DeptNameTaken(new_name, {d})
       THEN /\ msg' = "IntegrityError"      \* commit raises, nothing is written
            /\ UNCHANGED departments
       ELSE /\ departments' = [departments EXCEPT ![d].name = new_name]
            /\ msg' = "Department updated!"
    /\ UNCHANGED <<items, history, now, initialQuantity, sess>>

\* session.delete on a parent whose relationship has no cascade: the ORM
\* sets the children's department_id to NULL and deletes the parent row.
DeleteDepartment(d) ==
    /\ d \in DOMAIN departments
    /\ departments' = [e \in DOMAIN departments \ {d} |-> departments[e]]
    /\ items' = [i \in DOMAIN items |->
                    IF items[i].department_id = d
                    THEN [items[i] EXCEPT !.department_id = NoDept]
                    ELSE items[i]]
    /\ msg' = "Department deleted!"
    /\ UNCHANGED <<history, now, initialQuantity, sess>>

\* ------------------------------------------------------- manage_items
\* Fault variant of AddItem: the barcode column without unique=True.
AddItemNoUnique(dept, item_name, barcode, quantity, low_stock) ==
    /\ departments # << >>
    /\ dept \in DOMAIN departments
    /\ quantity >= MinInitialQuantity
    /\ low_stock >= MinLowStock
    /\ now < MaxClock
    /\ IF item_name = "" \/ barcode = ""
       THEN /\ msg' = "Please fill all required fields"
            /\ UNCHANGED <<items, now, initialQuantity>>
       ELSE LET id == NextId(items) IN
            /\ items' = [i \in DOMAIN items \cup {id} |->
                            IF i \in DOMAIN items THEN items[i]
                            ELSE Item(item_name, barcode, quantity, low_stock,
                                      dept, now + 1)]
            /\ initialQuantity' = [i \in DOMAIN items \cup {id} |->
                            IF i \in DOMAIN items THEN initialQuantity[i]
                            ELSE quantity]
            /\ now' = now + 1
            /\ msg' = "Item added successfully!"
    /\ UNCHANGED <<departments, history, sess>>

AddItem(dept, item_name, barcode, quantity, low_stock) ==
    /\ departments # << >>                      \* "Create departments first"
    /\ dept \in DOMAIN departments
    /\ quantity >= MinInitialQuantity
    /\ low_stock >= MinLowStock
    /\ now < MaxClock
    /\ IF item_name = "" \/ barcode = ""
       THEN /\ msg' = "Please fill all required fields"
            /\ UNCHANGED <<items, now, initialQuantity>>
       ELSE IF BarcodeTaken(barcode, {})
       THEN /\ msg' = "Barcode must be unique"  \* except: session.rollback()
            /\ UNCHANGED <<items, now, initialQuantity>>
       ELSE LET id == NextId(items) IN
            /\ items' = [i \in DOMAIN items \cup {id} |->
                            IF i \in DOMAIN items THEN items[i]
                            ELSE Item(item_name, barcode, quantity, low_stock,
                                      dept, now + 1)]
            /\ initialQuantity' = [i \in DOMAIN items \cup {id} |->
                            IF i \in DOMAIN items THEN initialQuantity[i]
                            ELSE quantity]
            /\ now' = now + 1
            /\ msg' = "Item added successfully!"
    /\ UNCHANGED <<departments, history, sess>>

\* The "Select Item" box formats every item with x.department.name, which
\* raises for an item whose department is gone: the edit form is then never
\* reached.
EditFormShown ==
    /\ departments # << >>
    /\ items # << >>
    /\ \A i \in DOMAIN items : items[i].department_id \in DOMAIN departments

UpdateItem(i, new_name, new_barcode, new_qty, new_threshold) ==
    /\ EditFormShown
    /\ i \in DOMAIN items
    /\ now < MaxClock
    /\ IF BarcodeTaken(new_barcode, {i})
       THEN /\ msg' = "IntegrityError"      \* commit raises, nothing is written
            /\ UNCHANGED <<items, now>>
       ELSE /\ items' = [items EXCEPT ![i] =
                 [@ EXCEPT !.name = new_name, !.barcode = new_barcode,
                           !.quantity = new_qty,
                           !.low_stock_threshold = new_threshold,
                           !.last_updated = now + 1]]
            /\ now' = now + 1
            /\ msg' = "Item updated!"
    /\ UNCHANGED <<departments, history, initialQuantity, sess>>

\* Fault variant of DeleteItem: the delete cascades to the item's history rows.
DeleteItemCascade(i) ==
    /\ EditFormShown
    /\ i \in DOMAIN items
    /\ items' = [j \in DOMAIN items \ {i} |-> items[j]]
    /\ initialQuantity' = [j \in DOMAIN items \ {i} |-> initialQuantity[j]]
    /\ history' = SelectSeq(history, LAMBDA h : h.item_id # i)
    /\ msg' = "Item deleted!"
    /\ UNCHANGED <<departments, now, sess>>

DeleteItem(i) ==
    /\ EditFormShown
    /\ i \in DOMAIN items
    /\ items' = [j \in DOMAIN items \ {i} |-> items[j]]
    /\ initialQuantity' = [j \in DOMAIN items \ {i} |-> initialQuantity[j]]
    /\ msg' = "Item deleted!"
    /\ UNCHANGED <<departments, history, now, sess>>

\* ------------------------------------------------------- scan_barcode
\* One run of the page with the form submitted: query, update, commit.
ScanBarcode(barcode, qty_change, note) ==
    /\ now < MaxClock
    /\ IF FindByBarcode(barcode) = {}
       THEN /\ msg' = "Item not found in database."
            /\ UNCHANGED <<items, history, now>>
       ELSE LET i == CHOOSE j \in FindByBarcode(barcode) : TRUE IN
            /\ items' = [items EXCEPT ![i] =
                            ApplyChange(@, items[i].quantity, qty_change, now + 1)]
            /\ history' = Append(history,
                                 StockHistory(i, qty_change, note, now + 1))
            /\ now' = now + 1
            /\ msg' = "Stock updated successfully!"
    /\ UNCHANGED <<departments, initialQuantity, sess>>

Next ==
    \/ \E n \in TextInput(DeptNames) : AddDepartment(n)
    \/ \E d \in DOMAIN departments, n \in DeptNames : UpdateDepartment(d, n)
    \/ \E d \in DOMAIN departments : DeleteDepartment(d)
    \/ \E d \in DOMAIN departments, n \in TextInput(ItemNames),
          b \in TextInput(Barcodes), q \in MinInitialQuantity..MaxQty,
          t \in {MinLowStock} : AddItem(d, n, b, q, t)
    \/ \E i \in DOMAIN items, n \in ItemNames,
          b \in Barcodes, q \in (MinInitialQuantity - 1)..MaxQty,
          t \in (MinLowStock - 1)..MinLowStock : UpdateItem(i, n, b, q, t)
    \/ \E i \in DOMAIN items : DeleteItem(i)
    \/ \E b \in Barcodes, d \in (-MaxDelta)..MaxDelta, n \in Notes :
          ScanBarcode(b, d, n)

Spec == Init /\ [][Next]_vars

\* ------------------------------------- scan_barcode, two sessions at once
\* Streamlit runs the script once per browser session, each run with its own
\* ORM session on the same SQLite file.  The query of line 252 and the commit
\* of line 265 are separate database statements, so another session's commit
\* can fall between them.
ConcInit ==
    \E q \in MinInitialQuantity..MaxQty :
        /\ departments = (1 :> [name |-> "Warehouse"])
        /\ items = (1 :> Item("Widget", "123", q, MinLowStock, 1, 1))
        /\ history = << >>
        /\ now = 1
        /\ msg = "Item added successfully!"
        /\ initialQuantity = (1 :> q)
        /\ sess = [p \in Sessions |-> Idle]

\* item = session.query(Item).filter_by(barcode=barcode).first()
Lookup(p, barcode) ==
    /\ sess[p].pc = "idle"
    /\ IF FindByBarcode(barcode) = {}
       THEN /\ msg' = "Item not found in database."
            /\ UNCHANGED sess
       ELSE LET i == CHOOSE j \in FindByBarcode(barcode) : TRUE IN
            /\ sess' = [sess EXCEPT ![p] =
                           [pc |-> "found", item |-> i,
                            quantity |-> items[i].quantity, change |-> 0,
                            seen |-> Len(history)]]
            /\ msg' = "Item Found"
    /\ UNCHANGED <<departments, items, history, now, initialQuantity>>

\* if submit: ... session.commit()
Submit(p, qty_change, note) ==
    /\ sess[p].pc = "found"
    /\ sess[p].item \in DOMAIN items
    /\ now < MaxClock
    /\ items' = [items EXCEPT ![sess[p].item] =
                    ApplyChange(@, sess[p].quantity, qty_change, now + 1)]
    /\ history' = Append(history,
                         StockHistory(sess[p].item, qty_change, note, now + 1))
    /\ now' = now + 1
    /\ msg' = "Stock updated successfully!"
    /\ sess' = [sess EXCEPT ![p].pc = "done", ![p].change = qty_change]
    /\ UNCHANGED <<departments, initialQuantity>>

\* time.sleep(1); st.experimental_rerun()
Rerun(p) ==
    /\ sess[p].pc = "done"
    /\ sess' = [sess EXCEPT ![p] = Idle]
    /\ UNCHANGED <<departments, items, history, now, msg, initialQuantity>>

ConcNext ==
    \/ \E p \in Sessions, b \in Barcodes : Lookup(p, b)
    \/ \E p \in Sessions, d \in (-MaxDelta)..MaxDelta, n \in Notes : Submit(p, d, n)
    \/ \E p \in Sessions : Rerun(p)

ConcSpec == ConcInit /\ [][ConcNext]_vars

\* ================================================================ claims
RECURSIVE SumChanges(_, _)
\* The sum of the change column over the history rows of item i.
SumChanges(h, i) ==
    IF h = << >> THEN 0
    ELSE (IF Head(h).item_id = i THEN Head(h).change ELSE 0) + SumChanges(Tail(h), i)

AddItemInputs ==
    (DOMAIN departments) \X TextInput(ItemNames) \X TextInput(Barcodes)
        \X (MinInitialQuantity..MaxQty) \X {MinLowStock}

ScanInputs == Barcodes \X ((-MaxDelta)..MaxDelta) \X Notes

\* C1: in every reachable state every item's quantity is >= 0.
C1_QuantityNonNegative ==
    \A i \in DOMAIN items : items[i].quantity >= 0

\* C2: a stock update on an existing item whose quantity + delta would be
\* negative fails with an insufficient-stock error and leaves the items and
\* the stock history exactly as they were.
C2_InsufficientStockRejected ==
    [][\A in \in ScanInputs :
          (/\ ScanBarcode(in[1], in[2], in[3])
           /\ \E i \in FindByBarcode(in[1]) : items[i].quantity + in[2] < 0)
          => (/\ msg' = "Insufficient stock"
              /\ UNCHANGED <<items, history>>)]_vars

\* C3: a stock update of item i by d with note n that reports success sets
\* the item's quantity to the old quantity + d, sets its last_updated (to a
\* later reading of the clock than any before), appends exactly
\* one history row (i, d, n), and changes no other item and no earlier
\* history row; hence every stock update moves an item's quantity and the sum
\* of its committed deltas by the same amount, so that after stock updates
\* alone quantity = initial quantity + sum of the committed deltas.
C3_StockUpdateEffect ==
    [][msg' = "Stock updated successfully!" =>
       \A in \in ScanInputs : \A i \in FindByBarcode(in[1]) :
          ScanBarcode(in[1], in[2], in[3]) =>
              /\ DOMAIN items' = DOMAIN items
              /\ items'[i].quantity = items[i].quantity + in[2]
              /\ items'[i].last_updated = now'
              /\ now' > now
              /\ items'[i] = [items[i] EXCEPT
                                 !.quantity = items'[i].quantity,
                                 !.last_updated = items'[i].last_updated]
              /\ \A j \in DOMAIN items \ {i} : items'[j] = items[j]
              /\ Len(history') = Len(history) + 1
              /\ SubSeq(history', 1, Len(history)) = history
              /\ history'[Len(history')].item_id = i
              /\ history'[Len(history')].change = in[2]
              /\ history'[Len(history')].note = in[3]
              /\ \A j \in DOMAIN items :
                    items'[j].quantity - SumChanges(history', j)
                        = items[j].quantity - SumChanges(history, j)
              /\ UNCHANGED departments]_vars

\* C3 witness: two non-zero stock updates have been committed on an item and
\* its quantity is the created quantity plus both deltas.
C3_Witness ==
    /\ msg = "Stock updated successfully!"
    /\ Len(history) >= 2
    /\ \E i \in DOMAIN items :
          /\ history[1].item_id = i /\ history[2].item_id = i
          /\ history[1].change # 0 /\ history[2].change # 0
          /\ items[i].quantity =
                initialQuantity[i] + history[1].change + history[2].change

\* C4: for every item, initial quantity + sum of the changes of its history
\* rows = current quantity, in every reachable state.
C4_HistoryReconciles ==
    \A i \in DOMAIN items :
        initialQuantity[i] + SumChanges(history, i) = items[i].quantity

\* C5: creating an item with a barcode that a stored item already has fails
\* with the duplicate-barcode message and leaves items, departments and
\* history as they were; no two stored items ever share a barcode.
C5_DuplicateBarcodeRejected ==
    /\ [][\A in \in AddItemInputs :
            (/\ in[2] # "" /\ in[3] # ""
             /\ BarcodeTaken(in[3], {})
             /\ AddItem(in[1], in[2], in[3], in[4], in[5]))
            => (/\ msg' = "Barcode must be unique"
                /\ UNCHANGED <<items, departments, history>>)]_vars
    /\ [](\A i, j \in DOMAIN items :
            items[i].barcode = items[j].barcode => i = j)

\* C5 witness: a creation has just been refused for its barcode while the
\* item holding that barcode is stored.
C5_Witness ==
    /\ msg = "Barcode must be unique"
    /\ \E i \in DOMAIN items : items[i].barcode \in Barcodes

\* C6: two stock updates that overlap on one item serialize: when both have
\* committed, the quantity is the quantity they read plus both deltas, and
\* two overlapping deductions whose sum exceeds the stock never both commit.
C6_ConcurrentUpdatesSerialize ==
    (/\ \A p \in Sessions : sess[p].pc = "done"
     /\ sess[1].item = sess[2].item
     /\ sess[1].seen = sess[2].seen)
    => LET i == sess[1].item
           q == sess[1].quantity
           total == q + sess[1].change + sess[2].change
       IN /\ items[i].quantity = total
          /\ ~(sess[1].change < 0 /\ sess[2].change < 0 /\ total < 0)

\* C7: every item's department_id names an existing department and every
\* history row's item_id names an existing item.
C7_ForeignKeysHold ==
    /\ \A i \in DOMAIN items : items[i].department_id \in DOMAIN departments
    /\ \A k \in 1..Len(history) : history[k].item_id \in DOMAIN items

\* C8: stock history is append-only: every step keeps every existing history
\* row, at its place and with the same item_id, change, timestamp and note.
C8_HistoryAppendOnly ==
    [][/\ Len(history') >= Len(history)
       /\ \A k \in 1..Len(history) : history'[k] = history[k]]_vars

\* C8 witness: an item with a history row has been deleted and the row is
\* still stored.
C8_Witness ==
    /\ msg = "Item deleted!"
    /\ \E k \in 1..Len(history) : history[k].item_id \notin DOMAIN items

\* C9: every item's low_stock_threshold is >= 1 in every reachable state.
C9_ThresholdPositive ==
    \A i \in DOMAIN items : items[i].low_stock_threshold >= MinLowStock

\* C10: no stock update with delta 0 is applied: every history row has a
\* change different from 0.
C10_ChangeNonZero ==
    \A k \in 1..Len(history) : history[k].change # 0

====
